---- MODULE Spec2Model ----
(***************************************************************************)
(* A model of the view dependency search engine of SearchView.py:          *)
(* search_view_dependencies and the loaders that feed it.                  *)
(*                                                                         *)
(* Text is modelled as a sequence of one-character strings, so that        *)
(* splitting, stripping, lower-casing, delimiter wrapping and pattern      *)
(* search are computed character by character, as the Python code does.    *)
(***************************************************************************)
EXTENDS Integers, Sequences, FiniteSets, TLC

VARIABLES
  files,      \* the rows of the three files on disk
  df,         \* view_deps: the DataFrame of dependency rows
  view_cols,  \* the DataFrame of output-column rows
  view_code,  \* the list of [name, code] entries
  pc,         \* "idle", or "returned" between a call and the display of its results
  query,      \* search_input of the last call
  result,     \* what the last call returned, or that it raised
  calls,      \* the calls made on df since it was loaded
  df_before   \* df as it was when the last call was made

vars == <<files, df, view_cols, view_code, pc, query, result, calls, df_before>>

-----------------------------------------------------------------------------
(* Bounds of the model.                                                    *)

\* Most dependency rows in viewDependencies.csv.
MaxRows == 2

\* Most terms in one query.
MaxTerms == 2

\* Most calls of search_view_dependencies on one loaded DataFrame.
MaxCalls == 2

-----------------------------------------------------------------------------
(* Characters and strings.                                                 *)

\* Unicode code point of a character: the order sorted() compares by.
Ord(c) ==
  CASE c = " " -> 32 [] c = "%" -> 37 [] c = "," -> 44 [] c = "." -> 46
    [] c = ">" -> 62 [] c = "A" -> 65 [] c = "B" -> 66 [] c = "[" -> 91
    [] c = "]" -> 93 [] c = "^" -> 94 [] c = "a" -> 97 [] c = "b" -> 98
    [] c = "c" -> 99

\* str.lower(), one character.
LowerChar(c) == CASE c = "A" -> "a" [] c = "B" -> "b" [] OTHER -> c

\* str.lower().
Lower(s) == [i \in 1..Len(s) |-> LowerChar(s[i])]

\* Python's s[1:].
DropFirst(s) == SubSeq(s, 2, Len(s))

\* str.startswith(c) for a one-character prefix.
StartsWith(s, c) == Len(s) > 0 /\ s[1] = c

\* str.replace(',', ' ').
ReplaceCommas(s) == [i \in 1..Len(s) |-> IF s[i] = "," THEN " " ELSE s[i]]

\* str.strip(chars): drop every leading and trailing character that is in chars.
RECURSIVE StripChars(_, _)
StripChars(s, chars) ==
  IF Len(s) = 0 THEN s
  ELSE IF s[1] \in chars THEN StripChars(DropFirst(s), chars)
  ELSE IF s[Len(s)] \in chars THEN StripChars(SubSeq(s, 1, Len(s) - 1), chars)
  ELSE s

\* str.strip(): whitespace.
Strip(s) == StripChars(s, {" "})

\* str.split(): split on runs of whitespace, no empty pieces.
\* cur is the piece being read, acc the pieces already closed.
RECURSIVE SplitWhitespace(_, _, _)
SplitWhitespace(s, cur, acc) ==
  IF Len(s) = 0 THEN (IF Len(cur) = 0 THEN acc ELSE Append(acc, cur))
  ELSE IF s[1] = " "
    THEN SplitWhitespace(DropFirst(s), <<>>,
                         IF Len(cur) = 0 THEN acc ELSE Append(acc, cur))
    ELSE SplitWhitespace(DropFirst(s), Append(cur, s[1]), acc)

\* str.split(sep): split on every occurrence of sep, empty pieces kept.
RECURSIVE SplitOn(_, _, _, _)
SplitOn(s, sep, cur, acc) ==
  IF Len(s) = 0 THEN Append(acc, cur)
  ELSE IF s[1] = sep
    THEN SplitOn(DropFirst(s), sep, <<>>, Append(acc, cur))
    ELSE SplitOn(DropFirst(s), sep, Append(cur, s[1]), acc)

\* ',' + s + ','.
Wrap(s) == <<",">> \o s \o <<",">>

\* Lexicographic order of two strings by code point, as sorted() uses.
RECURSIVE StrLess(_, _)
StrLess(s, t) ==
  IF Len(t) = 0 THEN FALSE
  ELSE IF Len(s) = 0 THEN TRUE
  ELSE IF Ord(s[1]) # Ord(t[1]) THEN Ord(s[1]) < Ord(t[1])
  ELSE StrLess(DropFirst(s), DropFirst(t))

\* sorted(set of strings).
RECURSIVE Sorted(_)
Sorted(S) ==
  IF S = {} THEN <<>>
  ELSE LET m == CHOOSE x \in S : \A y \in S \ {x} : StrLess(x, y)
       IN <<m>> \o Sorted(S \ {m})

-----------------------------------------------------------------------------
(* Series.str.contains(pat, case=False): pat is a regular expression       *)
(* (regex=True is the default), compiled with re.IGNORECASE and searched   *)
(* for anywhere in the text.  Of the characters of the model, '.', '[',    *)
(* ']' and '^' are special to re; the others stand for themselves.         *)

\* The members of a character set, read from pat[i] on. A ']' closes the set
\* unless it is the first member. Without a closing ']' the pattern is
\* invalid ("unterminated character set").
RECURSIVE ReadSet(_, _, _)
ReadSet(pat, i, members) ==
  IF i > Len(pat) THEN [ok |-> FALSE, members |-> members, next |-> i]
  ELSE IF pat[i] = "]" /\ members # {} THEN [ok |-> TRUE, members |-> members, next |-> i + 1]
  ELSE ReadSet(pat, i + 1, members \cup {LowerChar(pat[i])})

\* re.compile(pat, re.IGNORECASE): the sequence of atoms of the pattern.
RECURSIVE Compile(_, _, _)
Compile(pat, i, atoms) ==
  IF i > Len(pat) THEN [ok |-> TRUE, atoms |-> atoms]
  ELSE IF pat[i] = "." THEN Compile(pat, i + 1, Append(atoms, [kind |-> "any"]))
  ELSE IF pat[i] = "^" THEN Compile(pat, i + 1, Append(atoms, [kind |-> "begin"]))
  ELSE IF pat[i] = "["
    THEN LET negate == i + 1 <= Len(pat) /\ pat[i + 1] = "^"
             set == ReadSet(pat, IF negate THEN i + 2 ELSE i + 1, {})
         IN IF set.ok
              THEN Compile(pat, set.next,
                           Append(atoms, [kind |-> "set", negate |-> negate,
                                          members |-> set.members]))
              ELSE [ok |-> FALSE, atoms |-> <<>>]
  ELSE Compile(pat, i + 1, Append(atoms, [kind |-> "literal", ch |-> LowerChar(pat[i])]))

\* One atom against one character, ignoring case.
AtomMatches(atom, c) ==
  CASE atom.kind = "any" -> TRUE
    [] atom.kind = "literal" -> LowerChar(c) = atom.ch
    [] atom.kind = "set" -> (LowerChar(c) \in atom.members) # atom.negate

\* The atoms from the k-th on match the text from offset pos (0-based) on.
RECURSIVE MatchFrom(_, _, _, _)
MatchFrom(atoms, k, text, pos) ==
  IF k > Len(atoms) THEN TRUE
  ELSE IF atoms[k].kind = "begin" THEN pos = 0 /\ MatchFrom(atoms, k + 1, text, pos)
  ELSE /\ pos < Len(text)
       /\ AtomMatches(atoms[k], text[pos + 1])
       /\ MatchFrom(atoms, k + 1, text, pos + 1)

\* re.compile(pat) succeeds.
ValidPattern(pat) == Compile(pat, 1, <<>>).ok

\* pattern.search(text) is not None: the atoms match from some offset on.
SearchAtoms(atoms, text) == \E pos \in 0..Len(text) : MatchFrom(atoms, 1, text, pos)

\* Series.str.contains(pat, case=False) on one text, for a valid pattern.
Contains(text, pat) == SearchAtoms(Compile(pat, 1, <<>>).atoms, text)

-----------------------------------------------------------------------------
(* search_view_dependencies.                                               *)

\* terms = [term.strip() for term in search_terms.replace(',', ' ').split()]
ParseTerms(search_terms) ==
  LET pieces == SplitWhitespace(ReplaceCommas(search_terms), <<>>, <<>>)
  IN [i \in 1..Len(pieces) |-> Strip(pieces[i])]

\* df['ReferencedColumns'] = ',' + df['ReferencedColumns'] + ','
\* The assignment is to the caller's DataFrame.
WrapColumns(d) ==
  [i \in 1..Len(d) |-> [d[i] EXCEPT !.ReferencedColumns = Wrap(@)]]

\* OutputPattern without the [1:]: the '>' marker stays in the pattern.
OutputPattern_KeepMarker(term) == Lower(Strip(term))

\* search_term = term[1:].strip().lower()
OutputPattern(term) == Lower(Strip(DropFirst(term)))

\* parts = term.split('.')
Parts(term) == SplitOn(term, ".", <<>>, <<>>)

\* table = parts[0].strip().lower(), then stripped of a leading '%' or wrapped.
TablePattern(term) ==
  LET table == Lower(Strip(Parts(term)[1]))
  IN IF StartsWith(table, "%") THEN DropFirst(table) ELSE Wrap(table)

\* ColumnPattern with the column cut at the first '.' only: the later
\* segments stay in the column.
ColumnPattern_AfterFirstDot(term) ==
  LET parts == Parts(term)
      column == IF Len(parts) > 1
                  THEN Lower(Strip(SubSeq(term, Len(parts[1]) + 2, Len(term))))
                  ELSE <<>>
  IN IF StartsWith(column, "%") THEN DropFirst(column)
     ELSE IF Len(column) > 0 THEN Wrap(column)
     ELSE column

\* ColumnPattern without the branch for the '%' marker: the marker is
\* matched as a character of an exact column name.
ColumnPattern_KeepPercent(term) ==
  LET parts == Parts(term)
      column == IF Len(parts) > 1 THEN Lower(Strip(parts[2])) ELSE <<>>
  IN IF Len(column) > 0 THEN Wrap(column) ELSE column

\* column = parts[1].strip().lower() if there is a parts[1], else ''; then
\* stripped of a leading '%', or wrapped when not empty.
ColumnPattern(term) ==
  LET parts == Parts(term)
      column == IF Len(parts) > 1 THEN Lower(Strip(parts[2])) ELSE <<>>
  IN IF StartsWith(column, "%") THEN DropFirst(column)
     ELSE IF Len(column) > 0 THEN Wrap(column)
     ELSE column

\* str.contains compiles its pattern before it looks at any row: the term
\* raises re.error when a pattern of it is invalid.
TermRaises(term) ==
  IF StartsWith(term, ">") THEN ~ValidPattern(OutputPattern(term))
  ELSE ~ValidPattern(TablePattern(term)) \/ ~ValidPattern(ColumnPattern(term))

\* The row filter of a '>' term on view_cols.
OutputRowMatches(term, row) == Contains(row.OutputColumns, OutputPattern(term))

\* The row filter of a table/column term on df (whose ReferencedColumns
\* already carry the wrapping of WrapColumns).
RowMatches(term, row) ==
  /\ Contains(Wrap(row.ReferencedTable), TablePattern(term))
  /\ Contains(Wrap(row.ReferencedColumns), ColumnPattern(term))

\* matches = set(...['ViewName']) of the rows the term's filter keeps.
Matches(term, d, vc) ==
  IF StartsWith(term, ">")
    THEN {vc[i].ViewName : i \in {j \in 1..Len(vc) : OutputRowMatches(term, vc[j])}}
    ELSE {d[i].ViewName : i \in {j \in 1..Len(d) : RowMatches(term, d[j])}}

\* matched_views = set(df['ViewName'])
AllViews(d) == {d[i].ViewName : i \in 1..Len(d)}

\* IntersectionUpdate as update(): a union.
IntersectionUpdate_Union(matched_views, matches) == matched_views \cup matches

\* IntersectionUpdate as an assignment: matched_views = matches.
IntersectionUpdate_Replace(matched_views, matches) == matches

\* matched_views.intersection_update(matches)
IntersectionUpdate(matched_views, matches) == matched_views \cap matches

\* for term in terms: ... ; from the k-th term on.
RECURSIVE MatchLoop(_, _, _, _, _)
MatchLoop(terms, k, matched_views, d, vc) ==
  IF k > Len(terms) THEN [raised |-> FALSE, matched_views |-> matched_views]
  ELSE IF TermRaises(terms[k]) THEN [raised |-> TRUE, matched_views |-> {}]
  ELSE MatchLoop(terms, k + 1,
                 IntersectionUpdate(matched_views, Matches(terms[k], d, vc)), d, vc)

\* ViewOrder with sorted(..., reverse=True).
ViewOrder_Reversed(matched_views) ==
  LET up == Sorted(matched_views)
  IN [i \in 1..Len(up) |-> up[Len(up) + 1 - i]]

\* for view in sorted(matched_views)
ViewOrder(matched_views) == Sorted(matched_views)

\* row['ReferencedColumns'].strip(',')
TrimColumns(columns) == StripChars(columns, {","})

\* The value of the first row the test keeps, or the default.
RECURSIVE FirstOr(_, _, _, _, _)
FirstOr(rows, k, key, field, default) ==
  IF k > Len(rows) THEN default
  ELSE IF rows[k].ViewName = key THEN rows[k][field]
  ELSE FirstOr(rows, k + 1, key, field, default)

\* The rows of a view, in the order of the DataFrame.
RowsOf(d, view) == SelectSeq(d, LAMBDA row : row.ViewName = view)

\* dependencies = [{'Table': ..., 'Columns': ...} for _, row in view_dependencies.iterrows()]
Dependencies(d, view) ==
  LET view_dependencies == RowsOf(d, view)
  IN [i \in 1..Len(view_dependencies) |->
        [Table |-> view_dependencies[i].ReferencedTable,
         Columns |-> TrimColumns(view_dependencies[i].ReferencedColumns)]]

\* result.append({'View': ..., 'Dependencies': ..., 'OutputColumns': ..., 'Code': ...})
Entry(d, vc, code, view) ==
  [View |-> view,
   Dependencies |-> Dependencies(d, view),
   OutputColumns |-> FirstOr(vc, 1, view, "OutputColumns", <<>>),
   Code |-> FirstOr(code, 1, view, "Code", <<>>)]

\* result = [] and an entry appended for each view, in order.
ResultList(order, d, vc, code) ==
  [i \in 1..Len(order) |-> Entry(d, vc, code, order[i])]

\* What the call leaves behind once the loop over the terms has ended: the
\* DataFrame, whether a term raised, and the list returned.
Outcome(loop, d, vc, code) ==
  [df |-> d,
   raised |-> loop.raised,
   records |-> ResultList(ViewOrder(loop.matched_views), d, vc, code)]

\* The whole call. The columns are wrapped first, in the caller's DataFrame;
\* the terms are matched against the wrapped rows.
search_view_dependencies(d, search_terms, vc, code) ==
  Outcome(MatchLoop(ParseTerms(search_terms), 1, AllViews(d), WrapColumns(d), vc),
          WrapColumns(d), vc, code)

\* What the caller gets: an exception, or the list.
Returns(call) == [raised |-> call.raised, records |-> call.records]

-----------------------------------------------------------------------------
(* The files and the queries of the model.                                 *)

\* View names, as they sort: "B" < "a".
Views == {<<"a">>, <<"B">>}

\* What a dependency row says of its view: the referenced table and its
\* column list. A table with one column, a table with no column, and a table
\* whose name holds the delimiter and whose last column is the empty name.
RowShapes ==
  {[ReferencedTable |-> <<"A", "b">>, ReferencedColumns |-> <<"a">>],
   [ReferencedTable |-> <<"b">>, ReferencedColumns |-> <<>>],
   [ReferencedTable |-> <<"a", ",", "b">>, ReferencedColumns |-> <<"a", ",">>]}

DependencyRows ==
  {[ViewName |-> v, ReferencedTable |-> s.ReferencedTable,
    ReferencedColumns |-> s.ReferencedColumns] : v \in Views, s \in RowShapes}

\* The rows of viewDependencies.csv: at least one (read_csv refuses an empty
\* file), and one row for a view and a table.
DependencyFiles ==
  {f \in UNION {[1..n -> DependencyRows] : n \in 1..MaxRows} :
     \A i, j \in 1..Len(f) :
       (f[i].ViewName = f[j].ViewName /\ f[i].ReferencedTable = f[j].ReferencedTable)
         => i = j}

\* viewColumns.csv and ALL_views.txt: a row and an entry for one view only,
\* or rows for both views and no entry at all.
OtherFiles ==
  {[cols |-> <<[ViewName |-> <<"a">>, OutputColumns |-> <<"A", "b">>]>>,
    code |-> <<[ViewName |-> <<"a">>, Code |-> <<"c">>]>>],
   [cols |-> <<[ViewName |-> <<"B">>, OutputColumns |-> <<"a">>],
               [ViewName |-> <<"a">>, OutputColumns |-> <<"A", "b">>],
               [ViewName |-> <<"B">>, OutputColumns |-> <<"b">>]>>,
    code |-> <<>>]}

Files ==
  {[deps |-> d, cols |-> o.cols, code |-> o.code] :
     d \in DependencyFiles, o \in OtherFiles}

\* The words a term is made of: the empty word, plain names and a
\* character set.
Words == {<<>>, <<"a">>, <<"A", "b">>, <<"[", "^", "a", "]">>}

\* A segment of a table/column term: a word, with or without the '%' marker.
Segments == Words \cup {<<"%">> \o w : w \in Words}

\* The terms of the query language, to three '.'-separated segments, and
\* three terms with an unterminated character set.
Terms ==
  {<<">">> \o w : w \in Words \cup {<<".", "b">>}}
    \cup (Segments \ {<<>>})
    \cup {s \o <<".">> \o t : s \in Segments, t \in Segments}
    \cup {s \o <<".">> \o t \o <<".">> \o w :
            s \in {<<"A", "b">>, <<"%">>}, t \in {<<"a">>, <<"%", "a">>, <<>>},
            w \in {<<"b">>, <<>>}}
    \cup {<<"[">>, <<"%", ".", "[">>, <<">", "[">>}

\* The terms of queries of several terms.
JoinedTerms == {<<"A", "b">>, <<"b">>, <<">", "b">>}

\* The separator between the terms of a query (a comma and a blank: a run
\* of separators), and the padding around a query.
Separators == {<<",", " ">>}
Padding == {<<>>, <<" ">>, <<",">>}

\* term sep term sep ... term
RECURSIVE Join(_, _)
Join(ts, sep) ==
  IF Len(ts) = 0 THEN <<>>
  ELSE IF Len(ts) = 1 THEN ts[1]
  ELSE ts[1] \o sep \o Join(Tail(ts), sep)

\* What the user may type into the search box.
Queries ==
  {p \o q : p \in Padding, q \in Padding}
    \cup Terms
    \cup {p \o t : p \in Padding, t \in JoinedTerms}
    \cup UNION {{Join(ts, sep) : ts \in [1..n -> JoinedTerms], sep \in Separators} :
                  n \in 2..MaxTerms}

-----------------------------------------------------------------------------
(* The program.                                                            *)

\* load_view_dependencies(): the rows of the file, every field a string.
load_view_dependencies(f) == f.deps

\* load_view_columns().
load_view_columns(f) == f.cols

\* GetCode().
GetCode(f) == f.code

NoResult == [raised |-> FALSE, records |-> <<>>]

Init ==
  /\ files \in Files
  /\ df = load_view_dependencies(files)
  /\ view_cols = load_view_columns(files)
  /\ view_code = GetCode(files)
  /\ pc = "idle"
  /\ query = <<>>
  /\ result = NoResult
  /\ calls = 0
  /\ df_before = df

\* main() runs again: the three relations are read from the files again.
Load ==
  /\ pc = "idle"
  /\ df' = load_view_dependencies(files)
  /\ view_cols' = load_view_columns(files)
  /\ view_code' = GetCode(files)
  /\ calls' = 0
  /\ df_before' = df'
  /\ UNCHANGED <<files, pc, query, result>>

\* results = search_view_dependencies(view_deps, search_input, view_cols, view_Code)
Search ==
  /\ pc = "idle"
  /\ calls < MaxCalls
  /\ \E search_input \in Queries :
       \E call \in {search_view_dependencies(df, search_input, view_cols, view_code)} :
          /\ query' = search_input
          /\ df' = call.df
          /\ result' = Returns(call)
  /\ pc' = "returned"
  /\ calls' = calls + 1
  /\ df_before' = df
  /\ UNCHANGED <<files, view_cols, view_code>>

\* display_results(results), or the warning, or the error message: the
\* results are shown and dropped.
Display ==
  /\ pc = "returned"
  /\ pc' = "idle"
  /\ query' = <<>>
  /\ result' = NoResult
  /\ UNCHANGED <<files, df, view_cols, view_code, calls, df_before>>

Next == Load \/ Search \/ Display

Spec == Init /\ [][Next]_vars

-----------------------------------------------------------------------------
(* What the properties speak of.                                           *)

\* The call returned a list: it did not raise.
Returned == pc = "returned" /\ ~result.raised

\* The views of the returned list, in its order, and as a set.
ResultOrder == [i \in 1..Len(result.records) |-> result.records[i].View]
ResultViews == {result.records[i].View : i \in 1..Len(result.records)}

\* The terms of the query of the call.
QueryTerms == ParseTerms(query)

\* The query is one term.
OneTerm == Len(QueryTerms) = 1

\* The number of '.' in a term.
Dots(term) == Cardinality({i \in 1..Len(term) : term[i] = "."})

\* needle is a substring of text, character for character.
IsSubstring(needle, text) ==
  \E i \in 0..(Len(text) - Len(needle)) : SubSeq(text, i + 1, i + Len(needle)) = needle

\* A text without a character that is special in a regular expression.
IsLiteral(text) == \A i \in 1..Len(text) : text[i] \notin {".", "[", "]", "^"}

\* The elements of a comma-joined column list.
ColumnElements(columns) ==
  IF columns = <<>> THEN {}
  ELSE LET parts == SplitOn(columns, ",", <<>>, <<>>)
       IN {parts[i] : i \in 1..Len(parts)}

\* The views with a row of df that the test keeps.
ViewsOfRows(Test(_)) == {df[i].ViewName : i \in {j \in 1..Len(df) : Test(df[j])}}

\* The same, for a test of the row as it was loaded: a call changes neither
\* the number nor the order of the rows.
ViewsOfLoadedRows(Test(_)) ==
  LET loaded == load_view_dependencies(files)
  IN {loaded[i].ViewName : i \in {j \in 1..Len(loaded) : Test(loaded[j])}}

\* Some row of the view satisfies the term: a dependency row for a
\* table/column term, an output-columns row for a '>' term.
Satisfies(term, view) ==
  IF StartsWith(term, ">")
    THEN \E i \in 1..Len(view_cols) :
           view_cols[i].ViewName = view /\ OutputRowMatches(term, view_cols[i])
    ELSE \E i \in 1..Len(df) : df[i].ViewName = view /\ RowMatches(term, df[i])

-----------------------------------------------------------------------------
\* The views of the dependency relation each term of which, taken by
\* itself, is satisfied by some row of the view.
SatisfyingAll(terms) ==
  {v \in AllViews(df) : \A k \in 1..Len(terms) : Satisfies(terms[k], v)}

\* C1: a view of the dependency relation is in the result if and only if
\* each term of the query, taken by itself, is satisfied by some row of the
\* view; and the result holds views of the dependency relation only.
C1_AndAcrossTerms == Returned => ResultViews = SatisfyingAll(QueryTerms)

\* A query of two table/column terms has returned a view none of whose rows
\* satisfies both terms.
C1_Witness ==
  /\ Returned
  /\ Len(QueryTerms) = 2
  /\ ~StartsWith(QueryTerms[1], ">") /\ ~StartsWith(QueryTerms[2], ">")
  /\ \E v \in ResultViews :
       \A i \in 1..Len(df) :
         df[i].ViewName = v =>
           ~(RowMatches(QueryTerms[1], df[i]) /\ RowMatches(QueryTerms[2], df[i]))

-----------------------------------------------------------------------------
\* The table match of C2: equality of the lowercased names without the '%'
\* marker, containment with it.
TableMatchAsClaimed(term, table) ==
  IF StartsWith(term, "%")
    THEN IsSubstring(Lower(DropFirst(term)), Lower(table))
    ELSE Lower(table) = Lower(term)

\* C2: a single term without '.' matches a dependency row exactly when the
\* lowercased ReferencedTable equals the lowercased term, or, after a leading
\* '%', contains the lowercased rest.
C2_ExactOrSubstring ==
  (Returned /\ OneTerm /\ ~StartsWith(QueryTerms[1], ">") /\ Dots(QueryTerms[1]) = 0) =>
    ResultViews =
      ViewsOfLoadedRows(LAMBDA row : TableMatchAsClaimed(QueryTerms[1], row.ReferencedTable))

-----------------------------------------------------------------------------
\* The needle of a '>' term.
Needle(term) == Lower(Strip(DropFirst(term)))

Found(needle, text) ==
  IF IsLiteral(needle) THEN IsSubstring(needle, Lower(text)) ELSE Contains(text, needle)

-----------------------------------------------------------------------------
\* The query is empty or made of separators only.
OnlySeparators(q) == \A i \in 1..Len(q) : q[i] \in {",", " "}

\* C4: a query that is empty or holds only commas and whitespace has no
\* term, and the call returns one record for each distinct ViewName of the
\* dependency relation, in ascending order of ViewName.
C4_EmptyQueryAllViews ==
  (pc = "returned" /\ OnlySeparators(query)) =>
    /\ Len(QueryTerms) = 0
    /\ ~result.raised
    /\ ResultViews = AllViews(load_view_dependencies(files))
    /\ \A i, j \in 1..Len(ResultOrder) : i < j => StrLess(ResultOrder[i], ResultOrder[j])

\* A query of separators has returned two views.
C4_Witness ==
  /\ Returned
  /\ Len(query) > 0 /\ OnlySeparators(query)
  /\ Len(result.records) = 2

-----------------------------------------------------------------------------
\* C5: a call leaves the three relations as they were.
C5_InputsUnchanged ==
  pc = "returned" =>
    /\ df = df_before
    /\ view_cols = load_view_columns(files)
    /\ view_code = GetCode(files)

-----------------------------------------------------------------------------
\* C6: whatever calls came before on the same relations, a call returns
\* what a first call with its query returns on the relations as loaded.
C6_SameAsFirstCall ==
  pc = "returned" =>
    result = Returns(search_view_dependencies(load_view_dependencies(files), query,
                                              load_view_columns(files), GetCode(files)))

-----------------------------------------------------------------------------
\* The orders of n things.
Orders(n) == {p \in [1..n -> 1..n] : \A i, j \in 1..n : p[i] = p[j] => i = j}

\* The query of the same terms in another order.
Reordered(ts, p) == Join([i \in 1..Len(ts) |-> ts[p[i]]], <<" ">>)

\* C7: a call returns what it would return, on the same relations, for the
\* terms of its query in any other order.
C7_TermOrderIndependent ==
  pc = "returned" =>
    \A p \in Orders(Len(QueryTerms)) \ {[i \in 1..Len(QueryTerms) |-> i]} :
      result = Returns(search_view_dependencies(df_before, Reordered(QueryTerms, p),
                                                view_cols, view_code))

\* A query of two terms that match different sets of views has returned a view.
C7_Witness ==
  /\ Returned
  /\ Len(QueryTerms) = 2
  /\ Matches(QueryTerms[1], df, view_cols) # Matches(QueryTerms[2], df, view_cols)
  /\ ResultViews # {}

-----------------------------------------------------------------------------
\* C8: the Dependencies of a returned view are the dependency rows of the
\* view as loaded, in their order, each with its table and its column list.
C8_DependenciesAsLoaded ==
  Returned =>
    \A k \in 1..Len(result.records) :
      LET rows == RowsOf(load_view_dependencies(files), result.records[k].View)
      IN result.records[k].Dependencies =
           [i \in 1..Len(rows) |->
              [Table |-> rows[i].ReferencedTable, Columns |-> rows[i].ReferencedColumns]]

-----------------------------------------------------------------------------
\* The text of a term after its first '.'.
AfterFirstDot(term) == SubSeq(term, Len(Parts(term)[1]) + 2, Len(term))

\* The column match of C9 and C10: the column list, lowercased, contains the
\* rest as a substring after a leading '%', and has an element equal to the
\* column otherwise.
ColumnMatchAsClaimed(column, columns) ==
  IF StartsWith(column, "%")
    THEN IsSubstring(Lower(DropFirst(column)), Lower(columns))
    ELSE Lower(column) \in ColumnElements(Lower(columns))

\* C9 as stated: of a term with more than one '.', all the text after the
\* first '.' is the column.
C9_ColumnIsRestOfTerm ==
  (Returned /\ OneTerm /\ ~StartsWith(QueryTerms[1], ">") /\ Dots(QueryTerms[1]) > 1) =>
    ResultViews =
      ViewsOfLoadedRows(LAMBDA row :
        /\ Contains(Wrap(row.ReferencedTable), TablePattern(QueryTerms[1]))
        /\ ColumnMatchAsClaimed(AfterFirstDot(QueryTerms[1]), row.ReferencedColumns))

\* The term made of the first two segments of a term.
FirstTwoSegments(term) == Parts(term)[1] \o <<".">> \o Parts(term)[2]

\* C9 as amended: a term with more than one '.' is evaluated as the term
\* made of its first two segments; the text from the second '.' on is
\* dropped.
C9_LaterSegmentsDropped ==
  (Returned /\ OneTerm /\ ~StartsWith(QueryTerms[1], ">") /\ Dots(QueryTerms[1]) > 1) =>
    /\ ~TermRaises(FirstTwoSegments(QueryTerms[1]))
    /\ ResultViews = ViewsOfRows(LAMBDA row : RowMatches(FirstTwoSegments(QueryTerms[1]), row))

\* A term "T.a.b" has returned a view for a row of table T whose only column is a.
C9_Witness ==
  /\ Returned /\ OneTerm
  /\ QueryTerms[1] = <<"A", "b", ".", "a", ".", "b">>
  /\ \E i \in 1..Len(files.deps) :
       /\ files.deps[i].ViewName \in ResultViews
       /\ files.deps[i].ReferencedTable = <<"A", "b">>
       /\ files.deps[i].ReferencedColumns = <<"a">>

-----------------------------------------------------------------------------
\* The term has one '.' and nothing after it.
EmptyColumnPart(term) == Dots(term) = 1 /\ AfterFirstDot(term) = <<>>

\* C10 as stated: a term with a '.' and an empty column part matches a row
\* of the table only if the row's column list has an empty element.
C10_EmptyColumnIsExact ==
  (Returned /\ OneTerm /\ ~StartsWith(QueryTerms[1], ">") /\ EmptyColumnPart(QueryTerms[1])) =>
    ResultViews =
      ViewsOfLoadedRows(LAMBDA row :
        /\ Contains(Wrap(row.ReferencedTable), TablePattern(QueryTerms[1]))
        /\ <<>> \in ColumnElements(row.ReferencedColumns))

\* C10 as amended: a term "T." and a term "T.%" are evaluated as the term
\* "T": each matches every row the table part matches, whatever its columns.
C10_EmptyColumnIsAny ==
  (/\ pc = "returned" /\ OneTerm /\ ~StartsWith(QueryTerms[1], ">")
   /\ Dots(QueryTerms[1]) = 1 /\ AfterFirstDot(QueryTerms[1]) \in {<<>>, <<"%">>}) =>
    /\ result.raised = TermRaises(Parts(QueryTerms[1])[1])
    /\ ~result.raised =>
         ResultViews =
           ViewsOfRows(LAMBDA row :
             Contains(Wrap(row.ReferencedTable), TablePattern(Parts(QueryTerms[1])[1])))

\* A term "T." has returned a view for a row of table T whose columns have
\* no empty element.
C10_Witness ==
  /\ Returned /\ OneTerm
  /\ QueryTerms[1] = <<"A", "b", ".">>
  /\ \E i \in 1..Len(files.deps) :
       /\ files.deps[i].ViewName \in ResultViews
       /\ files.deps[i].ReferencedTable = <<"A", "b">>
       /\ files.deps[i].ReferencedColumns = <<"a">>

====
